---- MODULE Spec2Model ----
(***************************************************************************)
(* ARTest: heading fusion controller (sensor-controller.js), geodesy       *)
(* helpers (utils.js) and the angle difference of updateARView.            *)
(*                                                                         *)
(* Numbers are fixed point: angles are whole degrees, the values of sin    *)
(* and cos are scaled by Scale, and JavaScript's % is JsRem (the sign of   *)
(* the result is the sign of the dividend).  A value that can be           *)
(* undefined or null in the program is a sequence of length 0 or 1.        *)
(***************************************************************************)
EXTENDS Integers, Sequences, FiniteSets, TLC

VARIABLES
    platform,       \* what the browser offers: sensor classes, event types, libraries
    appState,       \* the appState object of main.js
    sessions,       \* one closure per startSensors call: its filters and its sensor
    listeners,      \* the orientation listeners of window, in the order of registration
    pendingClicks,  \* map clicks whose getElevation has not resolved yet
    lastClick,      \* the point of the latest map click
    ui,             \* the instruction element, instructionTimeout and the pending timers
    userElevationPending, \* the first fix's callback is suspended in await getElevation
    last,           \* the locals of the latest handleNewHeading run (diagnosticData)
    compassStatus,  \* textContent of #compass-status
    events,         \* orientation readings and events delivered so far
    delivery,       \* the latest reading or event delivered, and what its handlers did
    arScene,        \* the Babylon scene of ar-controller.js: light pillar and camera
    call,           \* a pure function being applied and its arguments
    ret             \* <<>> before that call returns, <<result>> after

ctlVars == <<platform, ui, appState, sessions, listeners, pendingClicks, lastClick,
             userElevationPending,
             last, compassStatus, events, delivery, arScene>>

vars == <<platform, ui, appState, sessions, listeners, pendingClicks, lastClick,
          userElevationPending,
          last, compassStatus, events, delivery, arScene, call, ret>>

\* undefined, null, NaN and a number v are told apart by their length
Undefined == <<>>
Null == <<0, 0>>
NaN == <<0, 0, 0>>
Some(v) == <<v>>
IsDefined(o) == Len(o) = 1
Val(o) == o[1]

-----------------------------------------------------------------------------
(* Arithmetic of the JavaScript runtime, in fixed point                     *)

SinTab ==
    << 175, 349, 523, 698, 872, 1045, 1219, 1392, 1564, 1736, 1908, 2079, 2250, 2419, 2588,
       2756, 2924, 3090, 3256, 3420, 3584, 3746, 3907, 4067, 4226, 4384, 4540, 4695, 4848, 5000,
       5150, 5299, 5446, 5592, 5736, 5878, 6018, 6157, 6293, 6428, 6561, 6691, 6820, 6947, 7071,
       7193, 7314, 7431, 7547, 7660, 7771, 7880, 7986, 8090, 8192, 8290, 8387, 8480, 8572, 8660,
       8746, 8829, 8910, 8988, 9063, 9135, 9205, 9272, 9336, 9397, 9455, 9511, 9563, 9613, 9659,
       9703, 9744, 9781, 9816, 9848, 9877, 9903, 9925, 9945, 9962, 9976, 9986, 9994, 9998, 10000 >>

\* sines and cosines are scaled by Scale = sin(90 degrees) of the table
Scale == SinTab[90]

\* a % n of JavaScript: truncated remainder, negative for a negative dividend
JsRem(a, n) == IF a >= 0 THEN a % n ELSE -((-a) % n)

Abs(a) == IF a < 0 THEN -a ELSE a

\* Math.sin of an angle of d degrees, scaled by Scale
Sin(d) ==
    LET r == d % 360
        q == IF r <= 90 THEN r ELSE IF r <= 180 THEN 180 - r
             ELSE IF r <= 270 THEN r - 180 ELSE 360 - r
        m == IF q = 0 THEN 0 ELSE SinTab[q]
    IN  IF r <= 180 THEN m ELSE -m

\* Math.cos of an angle of d degrees, scaled by Scale
Cos(d) == Sin(d + 90)

\* for x >= 0 and y >= 0, not both 0: the largest whole angle in 0..90 that is not
\* beyond the direction of (x, y) (the sign of the cross product)
Atan2Floor(y, x) ==
    Cardinality({ a \in 1..90 : Cos(a) * y - Sin(a) * x >= 0 })

\* for x >= 0 and y >= 0: the whole angle in 0..90 nearest to the direction of (x, y)
Atan2Quadrant(y, x) ==
    CHOOSE r \in { IF f < 90 /\ x * Cos(f + 1) + y * Sin(f + 1) > x * Cos(f) + y * Sin(f)
                   THEN f + 1 ELSE f : f \in { Atan2Floor(y, x) } } : TRUE

\* the angle of (x, y) in degrees, in (-180, 180], from the angle of (|x|, |y|)
Atan2Sign(y, x) ==
    IF x = 0 /\ y = 0 THEN 0
    ELSE LET base == Atan2Quadrant(Abs(y), Abs(x))
         IN  IF x >= 0 THEN (IF y >= 0 THEN base ELSE -base)
             ELSE (IF y >= 0 THEN 180 - base ELSE base - 180)

\* Math.atan2(y, x) in degrees, in (-180, 180]; atan2(0, 0) = 0.  The arguments
\* are evaluated once.
Atan2Deg(y, x) ==
    CHOOSE r \in { Atan2Sign(yv, xv) : yv \in {y}, xv \in {x} } : TRUE

\* the largest r + k, k < 2 * bit, whose square is at most n (bit a power of 2)
RECURSIVE SqrtBits(_, _, _)
SqrtBits(n, r, bit) ==
    IF bit = 0 THEN r
    ELSE IF (r + bit) * (r + bit) <= n THEN SqrtBits(n, r + bit, bit \div 2)
         ELSE SqrtBits(n, r, bit \div 2)

\* Math.sqrt of a fraction a / Scale, scaled by Scale
Sqrt(a) == SqrtBits(a * Scale, 0, 8192)

-----------------------------------------------------------------------------
(* Geodesy (utils.js) and the angle difference of updateARView              *)

\* lat and lng are whole degrees; the inputs are even, so that half angles are whole
GeoPoints ==
    { [lat |-> 0, lng |-> 0], [lat |-> 10, lng |-> 0], [lat |-> -10, lng |-> 0],
      [lat |-> 0, lng |-> 10], [lat |-> 0, lng |-> -10], [lat |-> 50, lng |-> 0],
      [lat |-> 50, lng |-> 10], [lat |-> 40, lng |-> -10] }

Elevations == { -5, 0, 20 }

AngleSamples == { 0, 1, 90, 179, 180, 181, 270, 359 }

EarthRadiusKm == 6371

\* calculateDistance: haversine, in km
calculateDistance(start, end) ==
    LET dLat == end.lat - start.lat
        dLon == end.lng - start.lng
        sLat == Sin(dLat \div 2)
        sLon == Sin(dLon \div 2)
        a == (sLat * sLat) \div Scale
             + (((sLon * sLon) \div Scale) * ((Cos(start.lat) * Cos(end.lat)) \div Scale)) \div Scale
        c == 2 * Atan2Deg(Sqrt(a), Sqrt(Scale - a))          \* in degrees
    IN  (EarthRadiusKm * c * 349) \div 20000                  \* R * c * pi / 180

\* the bearing as Math.atan2 gives it, in (-180, 180]
calculateBearingUnwrapped(start, end) ==
    LET dl == end.lng - start.lng
        y == (Sin(dl) * Cos(end.lat)) \div Scale
        x == (Cos(start.lat) * Sin(end.lat)) \div Scale
             - ((((Sin(start.lat) * Cos(end.lat)) \div Scale) * Cos(dl)) \div Scale)
    IN  Atan2Deg(y, x)

\* calculateBearing: initial bearing in degrees
calculateBearing(start, end) ==
    LET dl == end.lng - start.lng
        y == (Sin(dl) * Cos(end.lat)) \div Scale
        x == (Cos(start.lat) * Sin(end.lat)) \div Scale
             - ((((Sin(start.lat) * Cos(end.lat)) \div Scale) * Cos(dl)) \div Scale)
        bearing == Atan2Deg(y, x)
    IN  JsRem(bearing + 360, 360)

\* d * t / Scale for a length d in metres and a sine or cosine t
TimesTrig(d, t) == ((d \div 100) * t) \div 100

\* the position with the elevation difference taken the other way round
getTargetPositionInSceneFromAbove(originCoords, targetCoords, originElev, targetElev) ==
    LET distance == calculateDistance(originCoords, targetCoords) * 1000
        bearing == calculateBearing(originCoords, targetCoords)
    IN  [ x |-> TimesTrig(distance, Sin(bearing)),
          y |-> originElev - targetElev,
          z |-> TimesTrig(-distance, Cos(bearing)) ]

\* getTargetPositionInScene of utils.js (relative to an origin)
getTargetPositionInScene(originCoords, targetCoords, originElevation, targetElevation) ==
    LET distance == calculateDistance(originCoords, targetCoords) * 1000
        bearing == calculateBearing(originCoords, targetCoords)
    IN  [ x |-> TimesTrig(distance, Sin(bearing)),
          y |-> targetElevation - originElevation,
          z |-> TimesTrig(-distance, Cos(bearing)) ]

\* getTargetPositionInScene as it stands in ui-controller.js (relative to the user)
getTargetPositionInSceneUserRelative(userLoc, targetLoc, userElev, targetElev) ==
    LET distance == calculateDistance(userLoc, targetLoc) * 1000
        bearing == calculateBearing(userLoc, targetLoc)
    IN  [ x |-> TimesTrig(distance, Sin(bearing)),
          y |-> targetElev - userElev,
          z |-> TimesTrig(distance, Cos(bearing)) ]

\* updateARView of script.js: bearing - heading, wrapped by at most one turn
angleDifference(bearing, deviceOrientation) ==
    LET d0 == bearing - deviceOrientation
        d1 == IF d0 > 180 THEN d0 - 360 ELSE d0
    IN  IF d1 < -180 THEN d1 + 360 ELSE d1

-----------------------------------------------------------------------------
(* Heading fusion controller: sensor-controller.js, main.js, map-controller.js *)

MaxClicks == 2      \* map clicks, each of which ends in a startSensors call
MaxEvents == 2      \* orientation readings and events delivered
MaxTimers == 6      \* timers created by setTimeout

\* what the advanced sensor reports: rotateVectorByQuaternion([0, 0, -1], q) in the
\* east-north plane, and the pitch of quaternionToEuler(q) in degrees
AdvancedReadings ==
    { [east |-> 0, north |-> Scale, pitch |-> 0],
      [east |-> Sin(350), north |-> Cos(350), pitch |-> -30] }

\* DeviceOrientationEvent objects that carry a heading and a pitch
LegacyEvents ==
    { [webkitCompassHeading |-> Some(350), alpha |-> Some(10), beta |-> Some(45)],
      [webkitCompassHeading |-> Undefined, alpha |-> Some(90), beta |-> Some(0)],
      [webkitCompassHeading |-> Undefined, alpha |-> Some(5), beta |-> Some(-10)] }

\* DeviceOrientationEvent objects with a zero, null or missing (undefined) field
DegenerateLegacyEvents ==
    { [webkitCompassHeading |-> Some(0), alpha |-> Some(180), beta |-> Some(10)],
      [webkitCompassHeading |-> Some(0), alpha |-> Null, beta |-> Some(10)],
      [webkitCompassHeading |-> Undefined, alpha |-> Some(5), beta |-> Null],
      [webkitCompassHeading |-> Undefined, alpha |-> Null, beta |-> Null],
      [webkitCompassHeading |-> Null, alpha |-> Null, beta |-> Null] }

\* what fetch and response.json() do for one elevation request: fetch rejects on a
\* network error, response.ok is false for an HTTP error status, json() rejects
\* for a body that is not JSON, and data.elevation is missing, empty or a list
FetchOutcomes ==
    [ fetch : {"rejected", "fulfilled"}, ok : BOOLEAN, json : {"rejected", "fulfilled"},
      elevation : { <<>>, <<0>>, <<20>>, <<-5, 20>> } ]

\* headings within a few degrees of north, on both sides of the 0/360 boundary
NearNorth == { 355, 359, 0, 1, 5 }

\* values kfX.filter and kfY.filter return: a number (scaled by Scale) or NaN
FilteredSamples == { NaN, Some(-Scale), Some(0), Some(Scale) }

ScreenAngles == { 0, 90, 180, 270 }     \* screen.orientation.angle
SmoothedSamples == AngleSamples \cup { -15, 370 }  \* smoothedHeading without the filters
CalibrationOffsets == { -180, 0, 30 }   \* values of the heading-offset slider
FixPoints == { [lat |-> 50, lng |-> 0], [lat |-> 50, lng |-> 10] }
TargetPoints == { [lat |-> 40, lng |-> -10], [lat |-> 50, lng |-> 10] }

\* geomag.field(lat, lng).declination: west of true north at one fix, east at the other
geomagDeclination(point) == IF point.lng = 0 THEN -20 ELSE 20

\* new KalmanFilter() of kalmanjs with its defaults R = Q = A = C = 1, B = 0:
\* x is NaN until the first sample; cov = num / den
NewKalmanFilter == [x |-> Undefined, num |-> 0, den |-> 1]

\* kf.filter(z): the filter after the sample; the value returned is its x
KalmanFilter_filter(kf, z) ==
    IF ~IsDefined(kf.x)
    THEN [x |-> Some(z), num |-> 1, den |-> 1]
    ELSE LET n == kf.num + kf.den            \* predCov = cov + R = n / den
             d == kf.num + 2 * kf.den        \* K = predCov / (predCov + Q) = n / d
         IN  [x |-> Some(Val(kf.x) + ((n * (z - Val(kf.x))) \div d)),
              num |-> n, den |-> d]

\* appState of main.js as the page loads
InitialAppState ==
    [ userLocation |-> Undefined, userElevation |-> Undefined,
      targetLocation |-> Undefined, targetElevation |-> Undefined,
      deviceOrientation |-> Undefined, devicePitch |-> Undefined,
      magneticDeclination |-> 0, isDeclinationAvailable |-> FALSE,
      calibrationOffset |-> 0, worldAnchor |-> Undefined ]

\* the event types tried in the other order: the relative event first
legacyEventTypeRelativeFirst(p) ==
    IF p.orientationEvent THEN Some("deviceorientation")
    ELSE IF p.absoluteEvent THEN Some("deviceorientationabsolute")
    ELSE Undefined

\* the event type setupLegacyListener listens to, <<>> when the platform has neither
legacyEventType(p) ==
    IF p.absoluteEvent THEN Some("deviceorientationabsolute")
    ELSE IF p.orientationEvent THEN Some("deviceorientation")
    ELSE Undefined

\* setupLegacyListener in closure number s, on r = [sessions, listeners]:
\* window.addEventListener of a new handleOrientationEvent for one event type, or
\* only a log line when the platform has neither type
setupLegacyListener(r, s, p) ==
    [ sessions |-> [r.sessions EXCEPT ![s].legacySetups = @ + 1],
      listeners |-> IF IsDefined(legacyEventType(p))
                    THEN Append(r.listeners,
                                [type |-> Val(legacyEventType(p)), session |-> s])
                    ELSE r.listeners ]

\* startAdvancedSensor that takes the sensor for constructed on every platform
startAdvancedSensorUnchecked(r, s, p) ==
    [r EXCEPT !.sessions[s].sensor = "activated"]

\* startAdvancedSensor in closure number s: the sensor constructed and started, or
\* the catch branch when the constructor throws
startAdvancedSensor(r, s, p) ==
    IF p.advancedSensor
    THEN [r EXCEPT !.sessions[s].sensor = "activated"]
    ELSE setupLegacyListener(r, s, p)

\* the synchronous part of one startSensors call: a new closure with its filters,
\* then startAdvancedSensor in it
startSensors(r, p) ==
    startAdvancedSensor(
        [ sessions |-> Append(r.sessions,
                              [ isFilterAvailable |-> p.kalman,
                                kfX |-> NewKalmanFilter, kfY |-> NewKalmanFilter,
                                sensor |-> "none", legacySetups |-> 0 ]),
          listeners |-> r.listeners ],
        Len(r.sessions) + 1, p)

\* startSensors of script.js: when a KalmanFilter cannot be constructed it logs
\* "The application cannot proceed" and returns before any source is acquired and
\* before the position is watched; otherwise it proceeds as startSensors above
scriptStartSensors(r, p) ==
    IF ~p.kalman THEN r ELSE startSensors(r, p)

\* getElevation that lets the failure of the request reach its caller
getElevationRejecting(outcome) ==
    IF outcome.fetch = "rejected" \/ ~outcome.ok \/ outcome.json = "rejected"
    THEN [settled |-> "rejected", value |-> 0]
    ELSE [settled |-> "resolved",
          value |-> IF Len(outcome.elevation) > 0 THEN outcome.elevation[1] ELSE 0]

\* getElevation: how its promise settles; the catch block returns 0 for whatever
\* the try block throws
getElevation(outcome) ==
    IF outcome.fetch = "rejected" THEN [settled |-> "resolved", value |-> 0]
    ELSE IF ~outcome.ok THEN [settled |-> "resolved", value |-> 0]
    ELSE IF outcome.json = "rejected" THEN [settled |-> "resolved", value |-> 0]
    ELSE IF Len(outcome.elevation) > 0
         THEN [settled |-> "resolved", value |-> outcome.elevation[1]]
         ELSE [settled |-> "resolved", value |-> 0]

\* heading of the advanced reading, before declination
advancedMagneticHeading(reading) ==
    JsRem(Atan2Deg(reading.east, reading.north) + 360, 360)

\* trueHeading of the isAbsolute branch
advancedTrueHeading(magneticHeading, magneticDeclination) ==
    JsRem(magneticHeading + magneticDeclination + 360, 360)

\* event.webkitCompassHeading || event.alpha: <<>> when the result is null or undefined
legacyMagneticHeading(event) ==
    IF IsDefined(event.webkitCompassHeading) /\ Val(event.webkitCompassHeading) # 0
    THEN event.webkitCompassHeading
    ELSE event.alpha

\* trueHeading of the legacy branch
legacyTrueHeading(magneticHeading, magneticDeclination) ==
    magneticHeading + magneticDeclination

\* smoothing of the angle itself by one filter, without the projection
smoothHeadingByDegrees(sess, trueHeading) ==
    LET fx == KalmanFilter_filter(sess.kfX, trueHeading)
    IN  [ kfX |-> fx, kfY |-> sess.kfY, smoothedHeading |-> JsRem(Val(fx.x) + 360, 360) ]

\* the smoothing step: the two filters after the sample, and smoothedHeading
smoothHeading(sess, trueHeading) ==
    IF sess.isFilterAvailable
    THEN LET fx == KalmanFilter_filter(sess.kfX, Cos(trueHeading))
             fy == KalmanFilter_filter(sess.kfY, Sin(trueHeading))
         IN  [ kfX |-> fx, kfY |-> fy,
               smoothedHeading |-> JsRem(Atan2Deg(Val(fy.x), Val(fx.x)) + 360, 360) ]
    ELSE [ kfX |-> sess.kfX, kfY |-> sess.kfY, smoothedHeading |-> trueHeading ]

\* the smoothed headings of successive readings of one closure
RECURSIVE smoothHeadings(_, _)
smoothHeadings(sess, headings) ==
    IF headings = <<>> THEN <<>>
    ELSE CHOOSE r \in { <<sm.smoothedHeading>>
                          \o smoothHeadings([sess EXCEPT !.kfX = sm.kfX, !.kfY = sm.kfY],
                                            Tail(headings)) :
                        sm \in { smoothHeading(sess, Head(headings)) } } : TRUE

\* handleOrientation of script.js: exponential smoothing of the heading with factor
\* 0.4, in hundredths of a degree; smoothedOrientation is <<>> before the first event
scriptSmoothedOrientation(smoothedOrientation, heading) ==
    IF smoothedOrientation = Undefined THEN heading
    ELSE LET d0 == heading - Val(smoothedOrientation)
             d1 == IF d0 > 18000 THEN d0 - 36000 ELSE d0
             diff == IF d1 < -18000 THEN d1 + 36000 ELSE d1
         IN  JsRem(Val(smoothedOrientation) + (diff * 4) \div 10 + 36000, 36000)

\* smoothedOrientation after each of successive events, in hundredths of a degree
RECURSIVE scriptSmoothHeadings(_, _)
scriptSmoothHeadings(smoothedOrientation, headings) ==
    IF headings = <<>> THEN <<>>
    ELSE CHOOSE r \in { <<sm>> \o scriptSmoothHeadings(Some(sm), Tail(headings)) :
                        sm \in { scriptSmoothedOrientation(smoothedOrientation,
                                                           100 * Head(headings)) } } : TRUE

\* smoothedHeading from the values the two filters returned, each a number or NaN:
\* Math.atan2 of a NaN is NaN, and so are the sum and the remainder
smoothedHeadingOf(filteredX, filteredY) ==
    IF IsDefined(filteredX) /\ IsDefined(filteredY)
    THEN Some(JsRem(Atan2Deg(Val(filteredY), Val(filteredX)) + 360, 360))
    ELSE NaN

\* smoothedHeading of script.js, which tests the values with isNaN first
scriptSmoothedHeadingOf(heading, filteredX, filteredY) ==
    IF filteredX = NaN \/ filteredY = NaN
    THEN Some(heading)
    ELSE Some(JsRem(Atan2Deg(Val(filteredY), Val(filteredX)) + 360, 360))

\* finalHeading: the screen orientation correction
screenCorrectedHeading(smoothedHeading, isAbsolute, screenOrientationAngle) ==
    IF ~isAbsolute
    THEN JsRem(smoothedHeading + screenOrientationAngle + 360, 360)
    ELSE smoothedHeading

\* correctedHeading of the earlier handleNewHeading: the screen angle is subtracted,
\* for the readings of both sources
correctedHeadingEarlier(smoothedHeading, screenOrientationAngle) ==
    JsRem(smoothedHeading - screenOrientationAngle + 360, 360)

\* the calibration step without the offset
calibratedHeadingWithoutOffset(finalHeading, calibrationOffset) ==
    JsRem(finalHeading + 360, 360)

\* the calibration step without the final % 360
calibratedHeadingUnwrapped(finalHeading, calibrationOffset) ==
    finalHeading + calibrationOffset

\* calibratedHeading: the manual calibration offset
calibratedHeading(finalHeading, calibrationOffset) ==
    JsRem(finalHeading + calibrationOffset + 360, 360)

\* the text of #compass-status that handleNewHeading writes
compassStatusText(isAbsolute, isDeclinationAvailable) ==
    [ compassType |-> IF isAbsolute THEN "Advanced" ELSE "Legacy",
      headingType |-> IF isDeclinationAvailable THEN "True" ELSE "Magnetic" ]

\* handleNewHeading(event, isAbsolute) in closure number s, on the world
\* w = [appState, sessions, last, compassStatus, updates, thrown].  The legacy branch
\* throws a TypeError at magneticHeading.toFixed when the heading is null or
\* undefined, before anything is written, and at devicePitch.toFixed when beta is
\* null or undefined, before onUpdate().  updates counts the onUpdate() calls and
\* thrown the exceptions that leave a handler.
handleNewHeading(w, s, event, isAbsolute, screenOrientationAngle) ==
    LET sess == w.sessions[s]
        app == w.appState
        magnetic == IF isAbsolute THEN Some(advancedMagneticHeading(event))
                    ELSE legacyMagneticHeading(event)
        pitch == IF isAbsolute THEN Some(event.pitch) ELSE event.beta
    IN  IF ~IsDefined(magnetic) THEN [w EXCEPT !.thrown = @ + 1]
        ELSE
        LET trueHeading == IF isAbsolute
                           THEN advancedTrueHeading(Val(magnetic), app.magneticDeclination)
                           ELSE legacyTrueHeading(Val(magnetic), app.magneticDeclination)
            sm == smoothHeading(sess, trueHeading)
            finalHeading == screenCorrectedHeading(sm.smoothedHeading, isAbsolute,
                                                   screenOrientationAngle)
            calibrated == calibratedHeading(finalHeading, app.calibrationOffset)
        IN  [ appState |-> [app EXCEPT !.deviceOrientation = Some(calibrated),
                                       !.devicePitch = pitch],
              sessions |-> [w.sessions EXCEPT ![s] = [sess EXCEPT !.kfX = sm.kfX,
                                                                  !.kfY = sm.kfY]],
              last |-> Some([ session |-> s, isAbsolute |-> isAbsolute,
                              magneticHeading |-> Val(magnetic),
                              trueHeading |-> trueHeading,
                              smoothedHeading |-> sm.smoothedHeading,
                              screenOrientationAngle |-> screenOrientationAngle,
                              finalHeading |-> finalHeading,
                              pitch |-> pitch,
                              onUpdate |-> IsDefined(pitch) ]),
              compassStatus |-> Some(compassStatusText(isAbsolute,
                                                       app.isDeclinationAvailable)),
              updates |-> IF IsDefined(pitch) THEN w.updates + 1 ELSE w.updates,
              thrown |-> IF IsDefined(pitch) THEN w.thrown ELSE w.thrown + 1 ]

\* handleOrientationEvent of closure number s
handleOrientationEvent(w, s, event, screenOrientationAngle) ==
    IF event.webkitCompassHeading # Undefined \/ event.alpha # Null
    THEN handleNewHeading(w, s, event, FALSE, screenOrientationAngle)
    ELSE [w EXCEPT !.compassStatus = Some([compassType |-> "Error", headingType |-> "Error"])]

\* the closures of the handlers registered for an event type, in the order of
\* registration
RECURSIVE legacyHandlers(_, _)
legacyHandlers(ls, type) ==
    IF ls = <<>> THEN <<>>
    ELSE (IF Head(ls).type = type THEN <<Head(ls).session>> ELSE <<>>)
         \o legacyHandlers(Tail(ls), type)

\* the browser runs the handlers of one event one after the other
RECURSIVE dispatchOrientationEvent(_, _, _, _)
dispatchOrientationEvent(w, handlers, event, screenOrientationAngle) ==
    IF handlers = <<>> THEN w
    ELSE CHOOSE r \in
           { dispatchOrientationEvent(w1, Tail(handlers), event, screenOrientationAngle) :
               w1 \in { handleOrientationEvent(w, Head(handlers), event,
                                               screenOrientationAngle) } } : TRUE

\* the updateARView of the repository: the pillar placed once relative to the
\* world anchor (main.js), or moved at every update relative to the user
\* (ar-controller.js), or a marker moved across the screen by the angle difference
\* (script.js)
ArModels == { "worldAnchor", "userRelative", "marker" }

\* the scene initBabylonScene builds: the camera at the origin, the pillar at the
\* origin and disabled, isTargetPlaced false; no angle difference computed yet
initBabylonScene(model) ==
    [ model |-> model,
      isTargetPlaced |-> FALSE,
      pillarEnabled |-> FALSE,
      pillarPosition |-> [x |-> 0, y |-> 0, z |-> 0],
      cameraPosition |-> [x |-> 0, y |-> 0, z |-> 0],
      cameraRotation |-> [pitch |-> 0, yaw |-> 0],
      angleDifference |-> Undefined ]

\* updateARView returns at once until a fix, a target, a heading and a pitch exist
updateARViewReturnsEarly(app) ==
    \/ ~IsDefined(app.userLocation)
    \/ ~IsDefined(app.targetLocation)
    \/ app.deviceOrientation = Undefined
    \/ app.devicePitch = Undefined

\* arCamera.rotation; ToRadians of a null pitch is 0
cameraRotationOf(app) ==
    [ pitch |-> IF IsDefined(app.devicePitch) THEN Val(app.devicePitch) ELSE 0,
      yaw |-> 180 - Val(app.deviceOrientation) ]

\* updateARView that enables the pillar whatever is known of the elevations
updateARViewElevationBlind(app, scene) ==
    IF updateARViewReturnsEarly(app) THEN scene
    ELSE [scene EXCEPT !.cameraRotation = cameraRotationOf(app), !.pillarEnabled = TRUE]

\* updateARView that places the pillar at every update
updateARViewReplacing(app, scene) ==
    IF updateARViewReturnsEarly(app) \/ ~IsDefined(app.worldAnchor)
       \/ app.userElevation = Undefined \/ app.targetElevation = Undefined
    THEN scene
    ELSE [scene EXCEPT
            !.pillarPosition = getTargetPositionInScene(
                                   Val(app.worldAnchor), Val(app.targetLocation),
                                   Val(app.userElevation), Val(app.targetElevation)),
            !.isTargetPlaced = TRUE,
            !.pillarEnabled = TRUE,
            !.cameraRotation = cameraRotationOf(app),
            !.cameraPosition = getTargetPositionInScene(
                                   Val(app.worldAnchor), Val(app.userLocation),
                                   Val(app.userElevation), Val(app.userElevation)) ]

\* updateARView of script.js: the angle difference, from which the marker's place
\* on the screen and the target-in-view class follow
updateARViewMarker(app, scene) ==
    IF \/ ~IsDefined(app.userLocation)
       \/ ~IsDefined(app.targetLocation)
       \/ app.deviceOrientation = Undefined
    THEN scene
    ELSE [scene EXCEPT !.angleDifference =
             Some(angleDifference(calculateBearing(Val(app.userLocation),
                                                   Val(app.targetLocation)),
                                  Val(app.deviceOrientation)))]

\* updateARView of ar-controller.js: the camera stays at the origin and the pillar is
\* moved to the target's position relative to the user
updateARViewUserRelative(app, scene) ==
    IF updateARViewReturnsEarly(app) THEN scene
    ELSE LET rotated == [scene EXCEPT !.cameraRotation = cameraRotationOf(app)]
         IN  IF app.userElevation # Undefined /\ app.targetElevation # Undefined
             THEN [rotated EXCEPT
                     !.pillarPosition = getTargetPositionInScene(
                                            Val(app.userLocation), Val(app.targetLocation),
                                            Val(app.userElevation), Val(app.targetElevation)),
                     !.pillarEnabled = TRUE]
             ELSE rotated

\* updateARView of main.js: the pillar is placed once relative to the world anchor,
\* the camera is moved to the user's position relative to the anchor
updateARViewWorldAnchor(app, scene) ==
    IF updateARViewReturnsEarly(app) THEN scene
    ELSE LET placing == /\ IsDefined(app.worldAnchor) /\ IsDefined(app.targetLocation)
                        /\ app.userElevation # Undefined
                        /\ app.targetElevation # Undefined
                        /\ ~scene.isTargetPlaced
             placed == IF placing
                       THEN [scene EXCEPT
                               !.pillarPosition = getTargetPositionInScene(
                                                      Val(app.worldAnchor),
                                                      Val(app.targetLocation),
                                                      Val(app.userElevation),
                                                      Val(app.targetElevation)),
                               !.isTargetPlaced = TRUE,
                               !.pillarEnabled = TRUE]
                       ELSE scene
             rotated == [placed EXCEPT !.cameraRotation = cameraRotationOf(app)]
         IN  IF /\ IsDefined(app.worldAnchor) /\ IsDefined(app.userLocation)
                /\ app.userElevation # Undefined /\ rotated.isTargetPlaced
             THEN [rotated EXCEPT
                     !.cameraPosition = getTargetPositionInScene(
                                            Val(app.worldAnchor), Val(app.userLocation),
                                            Val(app.userElevation), Val(app.userElevation))]
             ELSE rotated

\* the world as the handlers of one reading or event find it
World == [ appState |-> appState, sessions |-> sessions, last |-> last,
           compassStatus |-> compassStatus, updates |-> 0, thrown |-> 0 ]

\* the world as the handlers of the reading or event leave it
SetWorld(w, event, isAbsolute, handlers) ==
    /\ appState' = w.appState
    /\ sessions' = w.sessions
    /\ last' = w.last
    /\ compassStatus' = w.compassStatus
    /\ delivery' = Some([ event |-> event, isAbsolute |-> isAbsolute,
                          handlers |-> handlers,
                          updates |-> w.updates, thrown |-> w.thrown,
                          declinationPending |-> userElevationPending /\ platform.geomag ])

\* setTimeout(fn, delay): a new timer whose id is the number of timers created so
\* far, a positive integer
setTimeout(u, fn) ==
    [u EXCEPT !.timeouts = u.timeouts + 1,
              !.timers = u.timers \cup { [id |-> u.timeouts + 1, fn |-> fn] }]

\* clearTimeout(id): the pending timer with this id, if there is one, is cancelled
clearTimeout(u, id) == [u EXCEPT !.timers = { t \in u.timers : t.id # id }]

\* showInstruction(message, persistent) of ui-controller.js; u.persistent records
\* the argument of the latest call, until hideInstruction is called
showInstruction(u, message, persistent) ==
    LET cleared == IF IsDefined(u.instructionTimeout)
                   THEN [clearTimeout(u, Val(u.instructionTimeout))
                            EXCEPT !.instructionTimeout = Null]
                   ELSE u
        shown == [cleared EXCEPT !.message = message, !.display = "block", !.opacity = 1,
                                 !.persistent = Some(persistent)]
    IN  IF persistent THEN shown
        ELSE [setTimeout(shown, "hideInstruction")
                 EXCEPT !.instructionTimeout = Some(shown.timeouts + 1)]

\* hideInstruction() of ui-controller.js: the 500 ms timer is not kept anywhere
hideInstruction(u) ==
    setTimeout([u EXCEPT !.opacity = 0, !.persistent = Undefined], "displayNone")

\* transitionToARView() of map-controller.js: the 1000 ms timer that shows the
\* next instruction (the 550 ms timer only redraws the map)
transitionToARView(u) == setTimeout(u, "showInstruction")

\* the module state of ui-controller.js after initUI, which ends with
\* showInstruction("Click on the map to select a target location.", true)
initUI ==
    showInstruction([ message |-> "", display |-> "block", opacity |-> 1,
                      persistent |-> Undefined, instructionTimeout |-> Undefined,
                      timers |-> {}, timeouts |-> 0 ],
                    "Click on the map to select a target location.", TRUE)

\* the callback of a timer
timerCallback(u, fn) ==
    IF fn = "hideInstruction" THEN hideInstruction(u)
    ELSE IF fn = "displayNone" THEN [u EXCEPT !.display = "none"]
    ELSE showInstruction(u, "Look around to find the target", FALSE)

Platforms ==
    [ advancedSensor : BOOLEAN, absoluteEvent : BOOLEAN, orientationEvent : BOOLEAN,
      kalman : BOOLEAN, geomag : BOOLEAN ]

InitCtl ==
    /\ appState = InitialAppState
    /\ sessions = <<>>
    /\ listeners = <<>>
    /\ pendingClicks = <<>>
    /\ lastClick = Undefined
    /\ ui = initUI
    /\ userElevationPending = FALSE
    /\ last = Undefined
    /\ compassStatus = Undefined
    /\ events = 0
    /\ delivery = Undefined

Init ==
    /\ platform \in Platforms
    /\ InitCtl
    /\ arScene = initBabylonScene("worldAnchor")
    /\ call = [fn |-> "none"]
    /\ ret = Undefined

\* the map click handler up to await getElevation: the instruction is hidden and
\* the view changed only after the await
MapClick(loc) ==
    /\ pendingClicks' = Append(pendingClicks, loc)
    /\ lastClick' = Some(loc)
    /\ UNCHANGED <<platform, ui, appState, sessions, listeners, userElevationPending, last,
                   compassStatus, events, delivery, arScene, call, ret>>

\* the rest of the click handler: onTargetSelect of main.js, which calls startSensors
TargetElevationResolved(i, elevation) ==
    /\ i \in DOMAIN pendingClicks
    /\ pendingClicks' = SubSeq(pendingClicks, 1, i - 1)
                        \o SubSeq(pendingClicks, i + 1, Len(pendingClicks))
    /\ appState' = [appState EXCEPT !.targetLocation = Some(pendingClicks[i]),
                                    !.targetElevation = Some(elevation)]
    /\ \E u \in { transitionToARView(hideInstruction(ui)) } : ui' = u
    /\ LET r == startSensors([sessions |-> sessions, listeners |-> listeners], platform)
       IN  sessions' = r.sessions /\ listeners' = r.listeners
    /\ UNCHANGED <<platform, lastClick, userElevationPending, last, compassStatus, events,
                   delivery,
                   arScene, call, ret>>

\* sensor.onreading of closure s
AdvancedReading(s, reading) ==
    /\ s \in DOMAIN sessions
    /\ sessions[s].sensor = "activated"
    /\ events' = events + 1
    /\ \E w \in { handleNewHeading(World, s, reading, TRUE, 0) } :
          SetWorld(w, reading, TRUE, <<s>>)
    /\ UNCHANGED <<platform, ui, listeners, pendingClicks, lastClick, userElevationPending, arScene,
                   call, ret>>

\* sensor.onerror of closure s; the platform has deactivated the sensor
SensorError(s) ==
    /\ s \in DOMAIN sessions
    /\ sessions[s].sensor = "activated"
    /\ LET r == setupLegacyListener([ sessions |-> [sessions EXCEPT ![s].sensor = "idle"],
                                       listeners |-> listeners ], s, platform)
       IN  sessions' = r.sessions /\ listeners' = r.listeners
    /\ UNCHANGED <<platform, ui, appState, pendingClicks, lastClick, userElevationPending, last,
                   compassStatus, events, delivery, arScene, call, ret>>

\* the platform fires one orientation event of a type that has listeners
OrientationEvent(type, event, screenOrientationAngle) ==
    /\ legacyHandlers(listeners, type) # <<>>
    /\ events' = events + 1
    /\ \E w \in { dispatchOrientationEvent(World, legacyHandlers(listeners, type), event,
                                             screenOrientationAngle) } :
          SetWorld(w, event, FALSE, legacyHandlers(listeners, type))
    /\ UNCHANGED <<platform, ui, listeners, pendingClicks, lastClick, userElevationPending, arScene,
                   call, ret>>

\* the world anchor that follows every fix
worldAnchorReanchored(app, position) == Some(position)

\* appState.worldAnchor after a fix: set if this is the first update
worldAnchorAfterFix(app, position) ==
    IF ~IsDefined(app.userLocation) THEN Some(position) ELSE app.worldAnchor

\* every fix taken for the first update
firstUpdateAlways(app) == TRUE

\* firstUpdate of the watchPosition callback
firstUpdate(app) == ~IsDefined(app.userLocation)

\* the watchPosition callback of closure s, up to its await or to its end
LocationFix(s, position) ==
    /\ s \in DOMAIN sessions
    /\ Some(position) # appState.userLocation
    /\ appState' = [appState EXCEPT !.userLocation = Some(position),
                                    !.worldAnchor = worldAnchorAfterFix(appState, position)]
    /\ userElevationPending' = (userElevationPending \/ firstUpdate(appState))
    /\ UNCHANGED <<platform, ui, sessions, listeners, pendingClicks, lastClick, last, compassStatus,
                   events, delivery, arScene, call, ret>>

\* the declination set without the elevation being stored
firstFixDeclinationOnly(app, p, elevation) ==
    IF p.geomag
    THEN [app EXCEPT !.magneticDeclination = geomagDeclination(Val(app.userLocation)),
                     !.isDeclinationAvailable = TRUE]
    ELSE app

\* appState after the first fix's await getElevation: elevation, then declination
firstFixAfterAwait(app, p, elevation) ==
    IF p.geomag
    THEN [app EXCEPT !.userElevation = Some(elevation),
                     !.magneticDeclination = geomagDeclination(Val(app.userLocation)),
                     !.isDeclinationAvailable = TRUE]
    ELSE [app EXCEPT !.userElevation = Some(elevation)]

\* the first fix's callback after await getElevation
UserElevationResolved(elevation) ==
    /\ userElevationPending
    /\ userElevationPending' = FALSE
    /\ \E app \in { firstFixAfterAwait(appState, platform, elevation) } : appState' = app
    /\ UNCHANGED <<platform, ui, sessions, listeners, pendingClicks, lastClick, last, compassStatus,
                   events, delivery, arScene, call, ret>>

\* the input handler of the heading-offset slider
HeadingOffsetInput(offset) ==
    /\ offset # appState.calibrationOffset
    /\ appState' = [appState EXCEPT !.calibrationOffset = offset]
    /\ UNCHANGED <<platform, ui, sessions, listeners, pendingClicks, lastClick,
                   userElevationPending, last,
                   compassStatus, events, delivery, arScene, call, ret>>

\* the renderer calls updateARView(appState)
UpdateARView ==
    /\ \E scene \in { IF arScene.model = "worldAnchor"
                       THEN updateARViewWorldAnchor(appState, arScene)
                       ELSE IF arScene.model = "userRelative"
                       THEN updateARViewUserRelative(appState, arScene)
                       ELSE updateARViewMarker(appState, arScene) } :
          arScene' = scene
    /\ UNCHANGED <<platform, ui, appState, sessions, listeners, pendingClicks, lastClick,
                   userElevationPending, last, compassStatus, events, delivery, call, ret>>

EventTypes == { "deviceorientationabsolute", "deviceorientation" }

\* Session life cycle: every platform, repeated target selections, sensor errors,
\* one reading of each kind
Next ==
    \/ \E loc \in TargetPoints :
          Len(sessions) + Len(pendingClicks) < MaxClicks /\ MapClick(loc)
    \/ \E i \in 1..MaxClicks : TargetElevationResolved(i, 0)
    \/ \E s \in 1..MaxClicks :
          events < MaxEvents /\ AdvancedReading(s, [east |-> 0, north |-> Scale, pitch |-> 0])
    \/ \E s \in 1..MaxClicks : SensorError(s)
    \/ \E t \in EventTypes :
          /\ events < MaxEvents
          /\ OrientationEvent(t, [webkitCompassHeading |-> Undefined,
                                  alpha |-> Some(90), beta |-> Some(0)], 0)
    \/ \E s \in 1..MaxClicks : LocationFix(s, [lat |-> 50, lng |-> 0])
    \/ UserElevationResolved(0)

Spec == Init /\ [][Next]_vars

\* Heading pipeline: one target selection, every reading, declination, screen
\* angle and calibration offset
InitFusion ==
    /\ platform \in { p \in Platforms : p.absoluteEvent /\ p.orientationEvent }
    /\ InitCtl
    /\ arScene = initBabylonScene("worldAnchor")
    /\ call = [fn |-> "none"]
    /\ ret = Undefined

NextFusion ==
    \/ \E loc \in TargetPoints :
          Len(sessions) + Len(pendingClicks) < 1 /\ loc.lng = 10 /\ MapClick(loc)
    \/ TargetElevationResolved(1, 0)
    \/ \E r \in AdvancedReadings : events < MaxEvents /\ AdvancedReading(1, r)
    \/ SensorError(1)
    \/ \E e \in LegacyEvents, a \in { 0, 90 } :
          events < MaxEvents /\ OrientationEvent("deviceorientationabsolute", e, a)
    \/ \E e \in DegenerateLegacyEvents :
          events < MaxEvents /\ OrientationEvent("deviceorientationabsolute", e, 0)
    \/ \E p \in FixPoints : ~IsDefined(appState.userLocation) /\ LocationFix(1, p)
    \/ UserElevationResolved(0)
    \/ \E o \in CalibrationOffsets : HeadingOffsetInput(o)

SpecFusion == InitFusion /\ [][NextFusion]_vars

\* Scene: a platform with every orientation source and one with none, every
\* updateARView, target selections with two elevations, fixes that move between two
\* points while the elevation lookup is pending, one reading
InitScene ==
    /\ platform \in { p \in Platforms :
                         /\ ~p.kalman /\ ~p.geomag
                         /\ p.absoluteEvent = p.advancedSensor
                         /\ p.orientationEvent = p.advancedSensor }
    /\ InitCtl
    /\ arScene \in { initBabylonScene(model) : model \in ArModels }
    /\ call = [fn |-> "none"]
    /\ ret = Undefined

NextScene ==
    \/ \E loc \in TargetPoints :
          Len(sessions) + Len(pendingClicks) < MaxClicks /\ MapClick(loc)
    \/ \E i \in 1..MaxClicks, e \in { 0, 20 } : TargetElevationResolved(i, e)
    \/ \E s \in 1..MaxClicks :
          events < MaxEvents /\ AdvancedReading(s, [east |-> 0, north |-> Scale, pitch |-> 0])
    \/ \E s \in 1..MaxClicks, p \in FixPoints : LocationFix(s, p)
    \/ UserElevationResolved(0)
    \/ UpdateARView

SpecScene == InitScene /\ [][NextScene]_vars

\* Instruction overlay: the exported functions of ui-controller.js called by the
\* click handler, by their timers and by any other importer of the module
InstructionMessages ==
    { "Click on the map to select a target location.", "Look around to find the target" }

\* a pending timer fires: it is removed and its callback runs
Timeout(t) ==
    /\ t \in ui.timers
    /\ \E u \in { timerCallback([ui EXCEPT !.timers = ui.timers \ { t }], t.fn) } : ui' = u
    /\ UNCHANGED <<platform, appState, sessions, listeners, pendingClicks, lastClick,
                   userElevationPending, last, compassStatus, events, delivery, arScene,
                   call, ret>>

\* a module that imports showInstruction calls it
ShowInstruction(message, persistent) ==
    /\ \E u \in { showInstruction(ui, message, persistent) } : ui' = u
    /\ UNCHANGED <<platform, appState, sessions, listeners, pendingClicks, lastClick,
                   userElevationPending, last, compassStatus, events, delivery, arScene,
                   call, ret>>

\* a module that imports hideInstruction calls it
HideInstruction ==
    /\ \E u \in { hideInstruction(ui) } : ui' = u
    /\ UNCHANGED <<platform, appState, sessions, listeners, pendingClicks, lastClick,
                   userElevationPending, last, compassStatus, events, delivery, arScene,
                   call, ret>>

InitUI ==
    /\ platform = [ advancedSensor |-> TRUE, absoluteEvent |-> TRUE,
                    orientationEvent |-> TRUE, kalman |-> FALSE, geomag |-> FALSE ]
    /\ InitCtl
    /\ arScene = initBabylonScene("worldAnchor")
    /\ call = [fn |-> "none"]
    /\ ret = Undefined

NextUI ==
    \/ \E loc \in TargetPoints :
          Len(sessions) + Len(pendingClicks) < MaxClicks /\ loc.lng = 10 /\ MapClick(loc)
    \/ \E i \in 1..MaxClicks : ui.timeouts + 2 <= MaxTimers /\ TargetElevationResolved(i, 0)
    \/ \E t \in ui.timers : ui.timeouts < MaxTimers /\ Timeout(t)
    \/ \E message \in InstructionMessages, persistent \in BOOLEAN :
          ui.timeouts < MaxTimers /\ ShowInstruction(message, persistent)
    \/ ui.timeouts < MaxTimers /\ HideInstruction

SpecUI == InitUI /\ [][NextUI]_vars

\* Location watch: with and without geomag, the watches of several closures, fixes
\* that move between two points while the elevation lookup is pending, readings
InitWatch ==
    /\ platform \in [ advancedSensor : {TRUE}, absoluteEvent : {TRUE},
                       orientationEvent : {TRUE}, kalman : {FALSE}, geomag : BOOLEAN ]
    /\ InitCtl
    /\ arScene = initBabylonScene("worldAnchor")
    /\ call = [fn |-> "none"]
    /\ ret = Undefined

NextWatch ==
    \/ \E loc \in TargetPoints :
          Len(sessions) + Len(pendingClicks) < MaxClicks /\ loc.lng = 10 /\ MapClick(loc)
    \/ \E i \in 1..MaxClicks : TargetElevationResolved(i, 0)
    \/ \E s \in 1..MaxClicks, r \in AdvancedReadings :
          events < MaxEvents /\ AdvancedReading(s, r)
    \/ \E s \in 1..MaxClicks, p \in FixPoints : LocationFix(s, p)
    \/ UserElevationResolved(0)

SpecWatch == InitWatch /\ [][NextWatch]_vars

\* the page of script.js as the orientation handlers of one closure see it: the
\* log entries in diagnosticsOverlay.innerHTML, the logMessages array of the later
\* variant, and counts of the handleNewHeading runs, of the filter updates and
\* of the times the error of a relative compass has been recorded
ScriptPage ==
    [ overlay |-> <<>>, logMessages |-> <<>>, compassStatus |-> Undefined,
      deviceOrientation |-> Undefined, legacySensorReadingReceived |-> FALSE,
      headingCalls |-> 0, filterUpdates |-> 0, recorded |-> 0 ]

RelativeMessage == "Compass is relative, which is not supported."

\* orientation events whose heading fields are 90: with a constant input the
\* Kalman filters return their input
ScriptEvents ==
    { [webkitCompassHeading |-> Undefined, absolute |-> FALSE, alpha |-> Some(90)],
      [webkitCompassHeading |-> Undefined, absolute |-> TRUE, alpha |-> Some(90)],
      [webkitCompassHeading |-> Some(90), absolute |-> FALSE, alpha |-> Some(10)] }

\* what the event loop runs: the listener for an event, or the 250 ms interval
ScriptSteps ==
    [ run : {"handleOrientationEvent"}, event : ScriptEvents ]
    \cup { [ run |-> "updateDiagnostics" ] }

\* String.prototype.includes on the overlay: no log entry contains another
includes(entries, entry) == \E i \in DOMAIN entries : entries[i] = entry

\* logErrorToOverlay(message) of script.js
logErrorToOverlay(pg, message) ==
    [pg EXCEPT !.overlay = Append(pg.overlay, message),
               !.recorded = IF message = RelativeMessage THEN pg.recorded + 1
                            ELSE pg.recorded]

\* updateDiagnostics(diagnosticData) of script.js: the overlay is replaced by the
\* diagnostic data
scriptUpdateDiagnostics(pg) == [pg EXCEPT !.overlay = <<>>]

\* logMessage(message, isError) of the later variant
logMessage(pg, message) ==
    IF includes(pg.logMessages, message) THEN pg
    ELSE [pg EXCEPT !.logMessages = Append(pg.logMessages, message),
                    !.recorded = IF message = RelativeMessage THEN pg.recorded + 1
                                 ELSE pg.recorded]

\* updateDiagnostics(diagnosticData) of the later variant: the data, then the logs
updateDiagnostics(pg) == [pg EXCEPT !.overlay = pg.logMessages]

\* handleNewHeading(data, false) of script.js, magneticDeclination being 0
scriptHandleNewHeading(pg, data) ==
    LET logged == IF pg.legacySensorReadingReceived THEN pg
                  ELSE [logErrorToOverlay(pg, "First legacy sensor reading received.")
                           EXCEPT !.legacySensorReadingReceived = TRUE]
    IN  [logged EXCEPT !.compassStatus = Some("Compass: Legacy"),
                       !.filterUpdates = logged.filterUpdates + 1,
                       !.deviceOrientation = Some(JsRem(Val(data) + 360, 360)),
                       !.headingCalls = logged.headingCalls + 1]

\* handleNewHeading(data, false) of the later variant, magneticDeclination and
\* screen.orientation.angle being 0
handleNewHeadingLogMessage(pg, data) ==
    LET logged == IF pg.legacySensorReadingReceived THEN pg
                  ELSE [logMessage(pg, "First legacy sensor reading received.")
                           EXCEPT !.legacySensorReadingReceived = TRUE]
    IN  [logged EXCEPT !.compassStatus = Some("Compass: Legacy (Magnetic)"),
                       !.filterUpdates = logged.filterUpdates + 1,
                       !.deviceOrientation = Some(JsRem(Val(data) + 360, 360)),
                       !.headingCalls = logged.headingCalls + 1]

\* handleOrientationEvent of script.js
scriptHandleOrientationEvent(pg, event) ==
    IF event.webkitCompassHeading # Undefined
    THEN scriptHandleNewHeading(pg, event.webkitCompassHeading)
    ELSE IF event.absolute
    THEN scriptHandleNewHeading(pg, event.alpha)
    ELSE IF ~includes(pg.overlay, RelativeMessage)
    THEN [logErrorToOverlay(pg, RelativeMessage)
             EXCEPT !.compassStatus = Some("Compass: Relative (unsupported)")]
    ELSE pg

\* handleOrientationEvent of the later variant
handleOrientationEventLogMessage(pg, event) ==
    IF event.webkitCompassHeading # Undefined
    THEN handleNewHeadingLogMessage(pg, event.webkitCompassHeading)
    ELSE IF event.absolute
    THEN handleNewHeadingLogMessage(pg, event.alpha)
    ELSE [logMessage(pg, RelativeMessage)
             EXCEPT !.compassStatus = Some("Compass: Relative (unsupported)")]

\* the page of script.js after the steps
RECURSIVE scriptRun(_, _)
scriptRun(pg, steps) ==
    IF steps = <<>> THEN pg
    ELSE scriptRun(IF Head(steps).run = "updateDiagnostics"
                   THEN scriptUpdateDiagnostics(pg)
                   ELSE scriptHandleOrientationEvent(pg, Head(steps).event),
                   Tail(steps))

\* the page of the later variant after the steps
RECURSIVE runLogMessage(_, _)
runLogMessage(pg, steps) ==
    IF steps = <<>> THEN pg
    ELSE runLogMessage(IF Head(steps).run = "updateDiagnostics"
                       THEN updateDiagnostics(pg)
                       ELSE handleOrientationEventLogMessage(pg, Head(steps).event),
                       Tail(steps))

-----------------------------------------------------------------------------
(* The pure functions, applied to sampled arguments *)

PureCalls ==
    [ fn : {"angleDifference"}, bearing : AngleSamples, heading : AngleSamples ]
    \cup [ fn : {"getTargetPositionInScene", "getTargetPositionInSceneUserRelative"},
           origin : GeoPoints, target : GeoPoints,
           originElevation : Elevations, targetElevation : Elevations ]
    \cup [ fn : {"screenCorrectedHeading", "correctedHeadingEarlier"},
           smoothedHeading : SmoothedSamples, isAbsolute : BOOLEAN,
           screenOrientationAngle : ScreenAngles ]
    \cup [ fn : {"startSensors", "scriptStartSensors"}, platform : Platforms ]
    \cup [ fn : {"getElevation"}, outcome : FetchOutcomes ]
    \cup [ fn : {"calculateBearing"}, start : GeoPoints, end : GeoPoints ]
    \cup [ fn : {"smoothHeadings", "scriptSmoothHeadings"},
           headings : [1..3 -> NearNorth] ]
    \cup [ fn : {"scriptRun", "runLogMessage"}, steps : [1..3 -> ScriptSteps] ]
    \cup [ fn : {"smoothedHeadingOf", "scriptSmoothedHeadingOf"}, heading : AngleSamples,
           filteredX : FilteredSamples, filteredY : FilteredSamples ]

InitPure ==
    /\ platform = [ advancedSensor |-> TRUE, absoluteEvent |-> TRUE,
                    orientationEvent |-> TRUE, kalman |-> TRUE, geomag |-> TRUE ]
    /\ InitCtl
    /\ arScene = initBabylonScene("worldAnchor")
    /\ call \in PureCalls
    /\ ret = Undefined

\* updateARView computes the angle difference
ApplyAngleDifference ==
    /\ ret = Undefined
    /\ call.fn = "angleDifference"
    /\ ret' = Some(angleDifference(call.bearing, call.heading))
    /\ UNCHANGED <<call, ctlVars>>

\* getTargetPositionInScene of utils.js returns
ApplyGetTargetPositionInScene ==
    /\ ret = Undefined
    /\ call.fn = "getTargetPositionInScene"
    /\ ret' = Some(getTargetPositionInScene(call.origin, call.target,
                                            call.originElevation, call.targetElevation))
    /\ UNCHANGED <<call, ctlVars>>

\* getTargetPositionInScene of ui-controller.js returns
ApplyGetTargetPositionInSceneUserRelative ==
    /\ ret = Undefined
    /\ call.fn = "getTargetPositionInSceneUserRelative"
    /\ ret' = Some(getTargetPositionInSceneUserRelative(call.origin, call.target,
                                            call.originElevation, call.targetElevation))
    /\ UNCHANGED <<call, ctlVars>>

\* the screen correction step of handleNewHeading
ApplyScreenCorrectedHeading ==
    /\ ret = Undefined
    /\ call.fn = "screenCorrectedHeading"
    /\ ret' = Some(screenCorrectedHeading(call.smoothedHeading, call.isAbsolute,
                                          call.screenOrientationAngle))
    /\ UNCHANGED <<call, ctlVars>>

\* the screen correction step of the earlier handleNewHeading
ApplyCorrectedHeadingEarlier ==
    /\ ret = Undefined
    /\ call.fn = "correctedHeadingEarlier"
    /\ ret' = Some(correctedHeadingEarlier(call.smoothedHeading, call.screenOrientationAngle))
    /\ UNCHANGED <<call, ctlVars>>

\* startSensors of sensor-controller.js returns, called on a page without sessions
ApplyStartSensors ==
    /\ ret = Undefined
    /\ call.fn = "startSensors"
    /\ ret' = Some(startSensors([sessions |-> <<>>, listeners |-> <<>>], call.platform))
    /\ UNCHANGED <<call, ctlVars>>

\* startSensors of script.js returns, called on a page without sessions
ApplyScriptStartSensors ==
    /\ ret = Undefined
    /\ call.fn = "scriptStartSensors"
    /\ ret' = Some(scriptStartSensors([sessions |-> <<>>, listeners |-> <<>>],
                                      call.platform))
    /\ UNCHANGED <<call, ctlVars>>

\* the smoothing step of handleNewHeading of sensor-controller.js, from the values
\* the filters returned
ApplySmoothedHeadingOf ==
    /\ ret = Undefined
    /\ call.fn = "smoothedHeadingOf"
    /\ ret' = Some(smoothedHeadingOf(call.filteredX, call.filteredY))
    /\ UNCHANGED <<call, ctlVars>>

\* the smoothing step of handleNewHeading of script.js
ApplyScriptSmoothedHeadingOf ==
    /\ ret = Undefined
    /\ call.fn = "scriptSmoothedHeadingOf"
    /\ ret' = Some(scriptSmoothedHeadingOf(call.heading, call.filteredX, call.filteredY))
    /\ UNCHANGED <<call, ctlVars>>

\* the promise of getElevation settles
ApplyGetElevation ==
    /\ ret = Undefined
    /\ call.fn = "getElevation"
    /\ ret' = Some(getElevation(call.outcome))
    /\ UNCHANGED <<call, ctlVars>>

\* calculateBearing returns
ApplyCalculateBearing ==
    /\ ret = Undefined
    /\ call.fn = "calculateBearing"
    /\ ret' = Some(calculateBearing(call.start, call.end))
    /\ UNCHANGED <<call, ctlVars>>

\* three readings in a row pass the smoothing step of handleNewHeading
ApplySmoothHeadings ==
    /\ ret = Undefined
    /\ call.fn = "smoothHeadings"
    /\ ret' = Some(smoothHeadings([ isFilterAvailable |-> TRUE, kfX |-> NewKalmanFilter,
                                    kfY |-> NewKalmanFilter ], call.headings))
    /\ UNCHANGED <<call, ctlVars>>

\* three events in a row pass the smoothing of handleOrientation of script.js
ApplyScriptSmoothHeadings ==
    /\ ret = Undefined
    /\ call.fn = "scriptSmoothHeadings"
    /\ ret' = Some(scriptSmoothHeadings(Undefined, call.headings))
    /\ UNCHANGED <<call, ctlVars>>

\* three steps of the event loop on the page of script.js
ApplyScriptRun ==
    /\ ret = Undefined
    /\ call.fn = "scriptRun"
    /\ ret' = Some(scriptRun(ScriptPage, call.steps))
    /\ UNCHANGED <<call, ctlVars>>

\* three steps of the event loop on the page of the later variant
ApplyRunLogMessage ==
    /\ ret = Undefined
    /\ call.fn = "runLogMessage"
    /\ ret' = Some(runLogMessage(ScriptPage, call.steps))
    /\ UNCHANGED <<call, ctlVars>>

NextPure ==
    \/ ApplyAngleDifference
    \/ ApplyGetTargetPositionInScene
    \/ ApplyGetTargetPositionInSceneUserRelative
    \/ ApplyScreenCorrectedHeading
    \/ ApplyCorrectedHeadingEarlier
    \/ ApplyStartSensors
    \/ ApplyScriptStartSensors
    \/ ApplySmoothedHeadingOf
    \/ ApplyScriptSmoothedHeadingOf
    \/ ApplyGetElevation
    \/ ApplyCalculateBearing
    \/ ApplySmoothHeadings
    \/ ApplyScriptSmoothHeadings
    \/ ApplyScriptRun
    \/ ApplyRunLogMessage

SpecPure == InitPure /\ [][NextPure]_vars

-----------------------------------------------------------------------------
(* Properties *)

\* C1: for every bearing in [0,360) and every heading in [0,360), the angle
\* difference computed by updateARView lies in (-180, 180]; it is never -180.
C1_AngleDifferenceHalfOpen ==
    (call.fn = "angleDifference" /\ IsDefined(ret))
        => (Val(ret) > -180 /\ Val(ret) <= 180)

\* C1: the call updateARView makes with bearing 0 and heading 180 has returned -180
C1_MinusHalfTurn ==
    /\ call.fn = "angleDifference"
    /\ call.bearing = 0 /\ call.heading = 180
    /\ ret = Some(-180)

\* the target of a getTargetPositionInScene call lies at bearing b from its origin,
\* at a distance that is not 0
TargetAtBearing(b) ==
    /\ calculateDistance(call.origin, call.target) > 0
    /\ calculateBearing(call.origin, call.target) = b

\* C2: getTargetPositionInScene returns z = -distance * cos(bearing): z is negative
\* for a target due north, positive for a target due south, and 0 for a target due
\* east (x positive) or due west (x negative).
C2_NorthIsMinusZ ==
    (call.fn \in {"getTargetPositionInScene", "getTargetPositionInSceneUserRelative"}
     /\ IsDefined(ret))
        => /\ Val(ret).z = TimesTrig(-(calculateDistance(call.origin, call.target) * 1000),
                                     Cos(calculateBearing(call.origin, call.target)))
           /\ TargetAtBearing(0) => Val(ret).z < 0
           /\ TargetAtBearing(180) => Val(ret).z > 0
           /\ TargetAtBearing(90) => (Val(ret).z = 0 /\ Val(ret).x > 0)
           /\ TargetAtBearing(270) => (Val(ret).z = 0 /\ Val(ret).x < 0)

\* C2: getTargetPositionInScene of ui-controller.js has returned a positive z for a
\* target due north of the user
C2_NorthIsPlusZ ==
    /\ call.fn = "getTargetPositionInSceneUserRelative"
    /\ IsDefined(ret)
    /\ TargetAtBearing(0)
    /\ Val(ret).z > 0

\* closure number s has fallen back: its setupLegacyListener has run
FellBack(s) == sessions[s].legacySetups > 0

\* the AbsoluteOrientationSensor objects constructed and started so far
SensorsStarted == { s \in DOMAIN sessions : sessions[s].sensor # "none" }

\* C3: once the advanced sensor has reported an error and the controller has fallen
\* back to the legacy listener, every heading sample processed afterwards is a
\* legacy one (isAbsolute = FALSE); no later advanced reading is processed.
C3_NoAdvancedAfterFallback ==
    [][ ((\E s \in DOMAIN sessions : FellBack(s)) /\ events' # events /\ last' # last)
            => ~Val(last').isAbsolute ]_vars

\* C3: closure 1 has fallen back after a sensor error and the latest sample is an
\* advanced reading processed by closure 2
C3_AdvancedAfterFallback ==
    /\ Len(sessions) >= 2
    /\ sessions[1].sensor = "idle" /\ FellBack(1)
    /\ IsDefined(last) /\ Val(last).isAbsolute /\ Val(last).session = 2

\* C4: after the transition to the legacy source the advanced sensor is never
\* constructed or started again, whatever sensor errors, location fixes and target
\* selections follow.
C4_LegacyIsTerminal ==
    [][ (\E s \in DOMAIN sessions : FellBack(s)) => SensorsStarted' = SensorsStarted ]_vars

\* C4: closure 1 has fallen back after a sensor error and a later target selection
\* has constructed and started the sensor of closure 2
C4_SensorStartedAgain ==
    /\ Len(sessions) >= 2
    /\ sessions[1].sensor = "idle" /\ FellBack(1)
    /\ sessions[2].sensor = "activated"

\* the listeners that closure number s has registered
ListenersOf(s) == { i \in DOMAIN listeners : listeners[i].session = s }

\* C5: every start attempts the advanced source first; setupLegacyListener has run
\* in a closure if and only if constructing the sensor failed or the sensor reported
\* an error, and it registers one event type: 'deviceorientationabsolute' when the
\* platform exposes it, otherwise 'deviceorientation', otherwise none.
C5_LegacyIffAdvancedFails ==
    \A s \in DOMAIN sessions :
        /\ (sessions[s].sensor = "none") <=> ~platform.advancedSensor
        /\ sessions[s].legacySetups = (IF sessions[s].sensor = "activated" THEN 0 ELSE 1)
        /\ Cardinality(ListenersOf(s)) =
               (IF FellBack(s) /\ (platform.absoluteEvent \/ platform.orientationEvent)
                THEN 1 ELSE 0)
        /\ \A i \in ListenersOf(s) :
               listeners[i].type = (IF platform.absoluteEvent
                                    THEN "deviceorientationabsolute"
                                    ELSE "deviceorientation")

\* C5: on a platform with both event types, one closure has fallen back after a
\* sensor error and listens to one event type while another still runs its sensor
C5_FallbackBesideSensor ==
    /\ platform.absoluteEvent /\ platform.orientationEvent
    /\ \E s \in DOMAIN sessions :
          sessions[s].sensor = "idle" /\ Cardinality(ListenersOf(s)) = 1
    /\ \E s \in DOMAIN sessions :
          sessions[s].sensor = "activated" /\ ListenersOf(s) = {}

\* a step in which handleNewHeading has processed a reading to its end
HeadingStep == events' # events /\ IsDefined(last') /\ last' # last

\* C6: on the advanced path the magnetic declination is not applied: the heading an
\* advanced reading yields is the heading of the reading itself, whatever
\* magneticDeclination holds and whether or not declination is available.
C6_NoDeclinationOnAdvanced ==
    (IsDefined(last) /\ Val(last).isAbsolute)
        => Val(last).trueHeading = Val(last).magneticHeading

\* C6: an advanced reading of heading 350 has been processed with declination 20 and
\* has yielded the heading 10
C6_DeclinationAdded ==
    /\ IsDefined(last) /\ Val(last).isAbsolute
    /\ appState.magneticDeclination = 20
    /\ Val(last).magneticHeading = 350 /\ Val(last).trueHeading = 10

\* C7: on the legacy path the heading fed to the post-fusion corrections is
\* (magnetic + declination) mod 360 when declination is available and the magnetic
\* heading unchanged when it is not, and the compass status says 'True' exactly when
\* declination is available and 'Magnetic' otherwise.
C7_LegacyTrueHeading ==
    [][ (HeadingStep /\ ~Val(last').isAbsolute)
            => /\ Val(last').trueHeading =
                     (IF appState.isDeclinationAvailable
                      THEN (Val(last').magneticHeading + appState.magneticDeclination) % 360
                      ELSE Val(last').magneticHeading)
               /\ compassStatus' =
                     Some([ compassType |-> "Legacy",
                            headingType |-> IF appState.isDeclinationAvailable
                                            THEN "True" ELSE "Magnetic" ]) ]_vars

\* C7: a legacy reading has been processed whose magnetic heading plus declination
\* is the heading it yields, and lies outside [0, 360)
C7_LegacyHeadingOutOfRange ==
    /\ IsDefined(last) /\ ~Val(last).isAbsolute
    /\ Val(last).trueHeading = Val(last).magneticHeading + appState.magneticDeclination
    /\ (Val(last).trueHeading >= 360 \/ Val(last).trueHeading < 0)

\* C8: the screen orientation angle is added to the smoothed heading only for legacy
\* readings: for an advanced reading the corrected heading is the smoothed heading
\* whatever screen.orientation.angle is, and for a legacy reading it is
\* (smoothedHeading + screenOrientationAngle) mod 360.
C8_ScreenAngleOnlyForLegacy ==
    (call.fn \in {"screenCorrectedHeading", "correctedHeadingEarlier"} /\ IsDefined(ret))
        => Val(ret) = (IF call.isAbsolute
                       THEN call.smoothedHeading
                       ELSE (call.smoothedHeading + call.screenOrientationAngle) % 360)

\* C8: the earlier handleNewHeading has subtracted a screen angle of 90 from the
\* heading of an advanced reading
C8_AngleSubtractedFromAdvanced ==
    /\ call.fn = "correctedHeadingEarlier"
    /\ call.isAbsolute /\ call.screenOrientationAngle = 90 /\ call.smoothedHeading = 180
    /\ ret = Some(90)

\* C9: the calibration offset is applied additively on both paths: the heading a
\* reading emits is (correctedHeading + calibrationOffset) mod 360, with the offset
\* that is current when the reading is processed.
C9_CalibrationOffsetAdditive ==
    [][ HeadingStep
            => appState'.deviceOrientation =
                  Some((Val(last').finalHeading + appState.calibrationOffset) % 360) ]_vars

\* C9: with the slider at -180 a reading has been emitted half a turn away from its
\* corrected heading
C9_OffsetApplied ==
    /\ IsDefined(last) /\ appState.calibrationOffset = -180
    /\ appState.deviceOrientation = Some((Val(last).finalHeading + 180) % 360)

\* C10: whenever a heading has been emitted, appState.deviceOrientation lies in
\* [0, 360), on both paths, with or without the filters, for every declination,
\* screen angle and calibration offset, negative values included.
C10_DeviceOrientationInRange ==
    IsDefined(appState.deviceOrientation)
        => (Val(appState.deviceOrientation) >= 0 /\ Val(appState.deviceOrientation) < 360)

\* C10: a heading has been emitted from a smoothed heading outside [0, 360)
C10_EmittedFromOutOfRange ==
    /\ IsDefined(appState.deviceOrientation) /\ IsDefined(last)
    /\ (Val(last).smoothedHeading < 0 \/ Val(last).smoothedHeading >= 360)

\* the latest delivery was a legacy event
LegacyDelivery == IsDefined(delivery) /\ ~Val(delivery).isAbsolute

\* C11: every orientation reading that carries a heading results in exactly one
\* emission by each handler it is delivered to: deviceOrientation and devicePitch
\* are written from the reading and onUpdate is then called once, no exception
\* leaving the handler.
C11_OneEmissionPerReading ==
    (/\ IsDefined(delivery)
     /\ \/ Val(delivery).isAbsolute
        \/ IsDefined(Val(delivery).event.webkitCompassHeading)
        \/ IsDefined(Val(delivery).event.alpha))
        => (/\ Val(delivery).updates = Len(Val(delivery).handlers)
            /\ Val(delivery).thrown = 0)

\* C11: a legacy event with a heading (alpha) and a null beta has been delivered:
\* deviceOrientation and devicePitch were written, devicePitch.toFixed threw and
\* onUpdate was not called
C11_WrittenButNotEmitted ==
    /\ LegacyDelivery
    /\ IsDefined(Val(delivery).event.alpha) /\ Val(delivery).event.beta = Null
    /\ IsDefined(appState.deviceOrientation) /\ appState.devicePitch = Null
    /\ Val(delivery).updates = 0 /\ Val(delivery).thrown = 1

\* C12: a legacy event that carries webkitCompassHeading is emitted with that
\* field's value as its magnetic heading, for every value of the field, 0 included.
C12_CompassFieldForEveryValue ==
    (/\ LegacyDelivery
     /\ IsDefined(Val(delivery).event.webkitCompassHeading)
     /\ Val(delivery).updates > 0)
        => Val(last).magneticHeading = Val(Val(delivery).event.webkitCompassHeading)

\* C12: an event with webkitCompassHeading 0 (due north) and alpha 180 has been
\* emitted with the magnetic heading 180
C12_NorthReadAsAlpha ==
    /\ LegacyDelivery
    /\ Val(delivery).event.webkitCompassHeading = Some(0)
    /\ Val(delivery).event.alpha = Some(180)
    /\ Val(delivery).updates = 1
    /\ Val(last).magneticHeading = 180

\* C13: a legacy event in which neither webkitCompassHeading nor alpha is present
\* (each absent or null) is reported as unavailable: no handler emits and no
\* exception is thrown.
C13_NeitherFieldIsUnavailable ==
    (/\ LegacyDelivery
     /\ ~IsDefined(Val(delivery).event.webkitCompassHeading)
     /\ ~IsDefined(Val(delivery).event.alpha))
        => (Val(delivery).updates = 0 /\ Val(delivery).thrown = 0)

\* C13: an event whose webkitCompassHeading and alpha are both null has passed the
\* guard of handleOrientationEvent and magneticHeading.toFixed has thrown
C13_NullFieldsThrow ==
    /\ LegacyDelivery
    /\ Val(delivery).event.webkitCompassHeading = Null
    /\ Val(delivery).event.alpha = Null
    /\ Val(delivery).thrown > 0

\* C14: when the KalmanFilter instances cannot be constructed, startSensors still
\* runs to its end: the session exists with its orientation source and its
\* location watch, and it smooths nothing.
C14_StartsWithoutFilters ==
    (/\ call.fn \in {"startSensors", "scriptStartSensors"}
     /\ IsDefined(ret)
     /\ ~call.platform.kalman)
        => (/\ Len(Val(ret).sessions) = 1
            /\ ~Val(ret).sessions[1].isFilterAvailable)

\* C14: startSensors of script.js has returned on a platform with the advanced
\* sensor and without KalmanFilter, and nothing was started
C14_NothingStarted ==
    /\ call.fn = "scriptStartSensors"
    /\ call.platform.advancedSensor /\ ~call.platform.kalman
    /\ ret = Some([sessions |-> <<>>, listeners |-> <<>>])

\* C15: when either filter returns NaN for a sample, the smoothing step yields the
\* unsmoothed heading of that sample, a number in [0, 360) and never NaN.
C15_NaNYieldsUnsmoothed ==
    (/\ call.fn \in {"smoothedHeadingOf", "scriptSmoothedHeadingOf"}
     /\ IsDefined(ret)
     /\ (call.filteredX = NaN \/ call.filteredY = NaN))
        => Val(ret) = Some(call.heading)

\* C15: the smoothing step of sensor-controller.js has returned NaN for a sample
\* with heading 90 whose kfY.filter returned NaN
C15_SmoothedIsNaN ==
    /\ call.fn = "smoothedHeadingOf"
    /\ call.heading = 90 /\ call.filteredX = Some(0) /\ call.filteredY = NaN
    /\ ret = Some(NaN)

\* the closures of startSensors that hold a filter pair
FilterPairs == { s \in 1..Len(sessions) : sessions[s].isFilterAvailable }

\* C16: the filter pair is created once and never again: whatever targets are
\* selected, whatever sensors fail and whatever readings arrive, there is at most
\* one pair, so all readings pass through the same two filters.
C16_OneFilterPair ==
    Cardinality(FilterPairs) <= 1

\* C16: after a second target selection a reading has been smoothed by the filters
\* of the second closure while the filters of the first hold an earlier reading
C16_ReadingsInTwoPairs ==
    /\ FilterPairs = {1, 2}
    /\ IsDefined(sessions[1].kfX.x) /\ IsDefined(sessions[2].kfX.x)
    /\ IsDefined(last) /\ Val(last).session = 2

\* C17: the target is never positioned or enabled in the scene while an elevation is
\* unknown: whenever the light pillar is enabled, or has left the origin, both
\* userElevation and targetElevation are defined, in both updateARView.
C17_PillarOnlyWithElevations ==
    (arScene.pillarEnabled \/ arScene.pillarPosition # initBabylonScene("").pillarPosition)
        => (IsDefined(appState.userElevation) /\ IsDefined(appState.targetElevation))

\* C17: the user-relative updateARView has enabled the pillar of a target whose
\* elevation is 20
C17_PillarEnabled ==
    /\ arScene.model = "userRelative"
    /\ arScene.pillarEnabled
    /\ appState.targetElevation = Some(20)

\* C18: the world anchor is set by the first fix, to the coordinates of that fix, and
\* no later step changes it, whichever closure's watch delivers the fix and whether
\* or not the elevation lookup of the first fix is still pending.
C18_WorldAnchorSetOnce ==
    [][ /\ IsDefined(appState.worldAnchor) => appState'.worldAnchor = appState.worldAnchor
        /\ (~IsDefined(appState.userLocation) /\ IsDefined(appState'.userLocation))
              => appState'.worldAnchor = appState'.userLocation
        /\ ~IsDefined(appState'.userLocation) => ~IsDefined(appState'.worldAnchor) ]_vars

\* C18: with two closures of startSensors watching, a later fix has moved the user
\* away from the anchor while the elevation lookup of the first fix is pending
C18_MovedWhilePending ==
    /\ Len(sessions) = 2
    /\ userElevationPending
    /\ IsDefined(appState.worldAnchor)
    /\ appState.userLocation # appState.worldAnchor

\* the position updateARView computes for the target, relative to the world anchor
TargetFromAnchor(app) ==
    getTargetPositionInScene(Val(app.worldAnchor), Val(app.targetLocation),
                             Val(app.userElevation), Val(app.targetElevation))

\* the position updateARView computes for the camera, relative to the world anchor
CameraFromAnchor(app) ==
    getTargetPositionInScene(Val(app.worldAnchor), Val(app.userLocation),
                             Val(app.userElevation), Val(app.userElevation))

\* anchor, target and both elevations are known
PlacementKnown(app) ==
    /\ IsDefined(app.worldAnchor) /\ IsDefined(app.targetLocation)
    /\ IsDefined(app.userElevation) /\ IsDefined(app.targetElevation)

ElevationUnavailable(outcome) ==
    \/ outcome.fetch = "rejected"
    \/ ~outcome.ok
    \/ outcome.json = "rejected"
    \/ outcome.elevation = <<>>

\* C20: getElevation never rejects: it resolves to 0 on a network error, a non-OK
\* status or a response without elevation data, and to the first elevation of the
\* response otherwise.
C20_GetElevationNeverRejects ==
    (call.fn = "getElevation" /\ IsDefined(ret))
        => (/\ Val(ret).settled = "resolved"
            /\ Val(ret).value = IF ElevationUnavailable(call.outcome)
                                THEN 0
                                ELSE call.outcome.elevation[1])

\* C20: getElevation has resolved to 0 after fetch rejected
C20_ResolvedAfterNetworkError ==
    /\ call.fn = "getElevation"
    /\ call.outcome.fetch = "rejected"
    /\ ret = Some([settled |-> "resolved", value |-> 0])

\* C21: the declination is looked up at most once, in the callback of the first fix:
\* only a callback that found no user location waits for the elevation and then
\* looks the declination up, later fixes change neither magneticDeclination nor
\* isDeclinationAvailable, and without geomag they stay 0 and false.
C21_DeclinationLookedUpOnce ==
    [][ /\ (userElevationPending' /\ ~userElevationPending)
              => ~IsDefined(appState.userLocation)
        /\ IsDefined(appState.userLocation) => IsDefined(appState'.userLocation)
        /\ (\/ appState'.magneticDeclination # appState.magneticDeclination
            \/ appState'.isDeclinationAvailable # appState.isDeclinationAvailable)
              => (/\ userElevationPending /\ ~userElevationPending'
                  /\ ~appState.isDeclinationAvailable
                  /\ platform.geomag)
        /\ ~platform.geomag
              => (~appState'.isDeclinationAvailable /\ appState'.magneticDeclination = 0)
      ]_vars

\* C21: after the lookup a fix has arrived from a point with another declination,
\* and the declination is still the one looked up
C21_LaterFixNotLookedUp ==
    /\ appState.isDeclinationAvailable
    /\ ~userElevationPending
    /\ appState.userLocation # appState.worldAnchor
    /\ appState.magneticDeclination # geomagDeclination(Val(appState.userLocation))

\* the platform has neither the advanced sensor nor a legacy orientation event
NoOrientationSource ==
    ~platform.advancedSensor /\ ~platform.absoluteEvent /\ ~platform.orientationEvent

\* C22: without any orientation source no heading is ever emitted, and an update
\* of the view that finds the user location, the target location or the heading
\* unknown leaves the scene as it is: no angle difference, no target placed,
\* nothing moved.
C22_NoSourceNoHeading ==
    [][ /\ NoOrientationSource
              => (/\ appState'.deviceOrientation = Undefined
                  /\ delivery' = Undefined
                  /\ arScene' = arScene)
        /\ (/\ UpdateARView
            /\ \/ ~IsDefined(appState.userLocation)
               \/ ~IsDefined(appState.targetLocation)
               \/ appState.deviceOrientation = Undefined)
              => arScene' = arScene ]_vars

\* C22: on a platform without orientation source the target, the fix and both
\* elevations are known, and the scene is as it was built
C22_EverythingButHeading ==
    /\ NoOrientationSource
    /\ Len(sessions) > 0
    /\ IsDefined(appState.targetLocation) /\ IsDefined(appState.targetElevation)
    /\ IsDefined(appState.userLocation) /\ IsDefined(appState.userElevation)
    /\ appState.deviceOrientation = Undefined
    /\ arScene = initBabylonScene(arScene.model)

\* C23: for every pair of points calculateBearing returns a value in [0, 360), never
\* 360 and never negative; it is 0 for a point due north, 180 due south, and along
\* the equator 90 for a point to the east and 270 for a point to the west.
C23_BearingInRange ==
    (call.fn = "calculateBearing" /\ IsDefined(ret))
        => (/\ Val(ret) >= 0 /\ Val(ret) < 360
            /\ (call.start.lng = call.end.lng /\ call.end.lat > call.start.lat)
                  => Val(ret) = 0
            /\ (call.start.lng = call.end.lng /\ call.end.lat < call.start.lat)
                  => Val(ret) = 180
            /\ (call.start.lat = 0 /\ call.end.lat = 0 /\ call.end.lng > call.start.lng)
                  => Val(ret) = 90
            /\ (call.start.lat = 0 /\ call.end.lat = 0 /\ call.end.lng < call.start.lng)
                  => Val(ret) = 270)

\* C23: the bearing to a point due west, for which atan2 gives -90, has been
\* returned as 270
C23_WestIs270 ==
    /\ call.fn = "calculateBearing"
    /\ call.start = [lat |-> 0, lng |-> 0] /\ call.end = [lat |-> 0, lng |-> -10]
    /\ calculateBearingUnwrapped(call.start, call.end) = -90
    /\ ret = Some(270)

\* C24: the y component getTargetPositionInScene returns is targetElevation -
\* originElevation, for every pair of elevations, negative differences included,
\* whatever the two coordinates are.
C24_YIsElevationDifference ==
    (/\ call.fn \in {"getTargetPositionInScene", "getTargetPositionInSceneUserRelative"}
     /\ IsDefined(ret))
        => Val(ret).y = call.targetElevation - call.originElevation

\* C24: for a target 25 m below an origin at another place, y = -25 has been returned
C24_TargetBelowOrigin ==
    /\ call.fn = "getTargetPositionInScene"
    /\ call.origin # call.target
    /\ call.originElevation = 20 /\ call.targetElevation = -5
    /\ IsDefined(ret) /\ Val(ret).y = -25

\* C25: smoothing is wrap-safe: for three headings in a row that lie within a few
\* degrees of north, on either side of the 0/360 boundary, every smoothed heading
\* is within 90 degrees of north, by the filter pair as by the exponential
\* smoothing of script.js.
C25_SmoothingWrapSafe ==
    /\ (call.fn = "smoothHeadings" /\ IsDefined(ret))
          => \A i \in 1..3 : Val(ret)[i] <= 90 \/ Val(ret)[i] >= 270
    /\ (call.fn = "scriptSmoothHeadings" /\ IsDefined(ret))
          => \A i \in 1..3 : Val(ret)[i] <= 9000 \/ Val(ret)[i] >= 27000

\* C25: the headings 359, 1, 359 have been smoothed by the filter pair, and each
\* smoothed heading is within 5 degrees of north
C25_AcrossNorth ==
    /\ call.fn = "smoothHeadings"
    /\ call.headings = <<359, 1, 359>>
    /\ IsDefined(ret)
    /\ \A i \in 1..3 : Val(ret)[i] <= 5 \/ Val(ret)[i] >= 355

\* C26: once every pending elevation lookup has completed, the published target is
\* the point of the most recent click, in whatever order the lookups of
\* successive clicks completed.
C26_LatestClickPublished ==
    (pendingClicks = <<>> /\ IsDefined(lastClick))
        => appState.targetLocation = lastClick

\* C26: the lookup of the first of two clicks has completed last, and its point is
\* the published target
C26_EarlierClickPublished ==
    /\ pendingClicks = <<>>
    /\ Len(sessions) = 2
    /\ IsDefined(lastClick)
    /\ IsDefined(appState.targetLocation)
    /\ appState.targetLocation # lastClick

\* C27: at most one legacy orientation handler is registered at any time, and a
\* legacy event is processed by handleNewHeading once: one handler runs and
\* onUpdate is called once, however many sensor errors and target selections
\* there have been.
C27_OneLegacyHandler ==
    /\ Len(listeners) <= 1
    /\ LegacyDelivery
          => (Len(Val(delivery).handlers) = 1 /\ Val(delivery).updates <= 1)

\* C27: after two target selections one legacy event has been processed by the
\* handlers of two closures, and onUpdate has been called twice
C27_EventProcessedTwice ==
    /\ Len(listeners) = 2
    /\ LegacyDelivery
    /\ Len(Val(delivery).handlers) = 2
    /\ Val(delivery).updates = 2

\* C28: isDeclinationAvailable is true only once the elevation lookup of the first
\* fix has completed (userElevation is defined); while it is false
\* magneticDeclination is 0; and a reading that arrives while the lookup is
\* pending is still emitted: onUpdate is called and the heading is written,
\* and the lookup stays pending.
C28_DeclinationAfterElevation ==
    /\ [](appState.isDeclinationAvailable => IsDefined(appState.userElevation))
    /\ [](~appState.isDeclinationAvailable => appState.magneticDeclination = 0)
    /\ [](userElevationPending => ~appState.isDeclinationAvailable)
    /\ [][ (userElevationPending /\ events' = events + 1)
              => (/\ IsDefined(delivery')
                  /\ Val(delivery').updates = 1
                  /\ IsDefined(appState'.deviceOrientation)
                  /\ userElevationPending') ]_vars

\* C28: with geomag a reading has been emitted while the elevation lookup of the
\* first fix was pending, and the declination is still unavailable and 0
C28_EmittedWhilePending ==
    /\ platform.geomag
    /\ userElevationPending
    /\ IsDefined(delivery)
    /\ Val(delivery).declinationPending
    /\ Val(delivery).updates = 1
    /\ IsDefined(appState.deviceOrientation)
    /\ ~appState.isDeclinationAvailable
    /\ appState.magneticDeclination = 0

\* C29: after showInstruction(message, persistent = true) and until hideInstruction
\* is next called the instruction is displayed: display is block and opacity is 1,
\* whatever timers were pending when it was shown.
C29_PersistentStaysDisplayed ==
    ui.persistent = Some(TRUE) => (ui.display = "block" /\ ui.opacity = 1)

\* C29: hideInstruction has not been called since a persistent instruction was
\* shown, and the 500 ms timer of an earlier hideInstruction has set display to
\* none
C29_HiddenByEarlierTimer ==
    /\ ui.persistent = Some(TRUE)
    /\ ui.display = "none"
    /\ ui.opacity = 1
    /\ \A t \in ui.timers : t.fn # "hideInstruction"

\* the steps that deliver a relative event: no webkitCompassHeading, absolute
\* not true
RelativeSteps(steps) ==
    { i \in DOMAIN steps :
         /\ steps[i].run = "handleOrientationEvent"
         /\ steps[i].event.webkitCompassHeading = Undefined
         /\ ~steps[i].event.absolute }

\* the steps that deliver an event with a heading
HeadingSteps(steps) ==
    { i \in DOMAIN steps : steps[i].run = "handleOrientationEvent" }
        \ RelativeSteps(steps)

\* C30: a legacy event without webkitCompassHeading whose absolute flag is not
\* true is rejected: handleNewHeading runs and the filters are updated only for
\* the other events, deviceOrientation stays undefined if there are no others,
\* and the error of a relative compass is recorded once, however many relative
\* events arrive.
C30_RelativeRejectedOnce ==
    (call.fn \in {"scriptRun", "runLogMessage"} /\ IsDefined(ret))
        => /\ Val(ret).headingCalls = Cardinality(HeadingSteps(call.steps))
           /\ Val(ret).filterUpdates = Cardinality(HeadingSteps(call.steps))
           /\ HeadingSteps(call.steps) = {} => Val(ret).deviceOrientation = Undefined
           /\ Val(ret).recorded = IF RelativeSteps(call.steps) = {} THEN 0 ELSE 1

\* C30: in script.js two relative events with a refresh of the diagnostics
\* between them are both rejected, and the error has been recorded twice
C30_RecordedAgainAfterRefresh ==
    /\ call.fn = "scriptRun"
    /\ RelativeSteps(call.steps) = {1, 3}
    /\ call.steps[2].run = "updateDiagnostics"
    /\ IsDefined(ret)
    /\ Val(ret).headingCalls = 0
    /\ Val(ret).deviceOrientation = Undefined
    /\ Val(ret).recorded = 2

====
